---- MODULE Spec2Model ----
(***************************************************************************)
(* State-machine model of src/src/nbind.ts: the search for a compiled      *)
(* binary (makeModulePathList, findCompiledModule, find) and its           *)
(* initialization (init, initNode, initAsm, getLib, rethrow).              *)
(*                                                                         *)
(* One public call (find, init, or findCompiledModule applied to a list of *)
(* module specs) runs at a time.  The Probe actions run the search loop    *)
(* up to and including the next candidate that resolves, with all that the *)
(* callback does inside the try block; RuntimeReady is the asm.js runtime  *)
(* invoking the ready hook after the call that loaded it has returned.     *)
(***************************************************************************)
EXTENDS Integers, Sequences, FiniteSets, TLC

VARIABLES
    fs,             \* what require.resolve finds: entries [path, real, kind]
    cwd,            \* process.cwd()
    envDir,         \* process.env['NODE_BINDINGS_COMPILED_DIR'] ("" = unset)
    pc,             \* "idle" | "search" | "returned" | "threw"
    call,           \* the public call in progress: [fn, args, seed]
    root,           \* findCompiledModule: root
    specList,          \* findCompiledModule: specList (spec.path is mutable)
    cands,          \* findCompiledModule: the candidates of the loops, in order
    k,              \* findCompiledModule: number of candidates probed so far
    resolvedList,   \* findCompiledModule: resolvedList
    callback,       \* the completion callback resolved by find / init
    libArg,         \* init: object id of the `lib` argument (0 = none)
    libs,           \* heap of export objects, by object id
    bindings,       \* Binding objects created by init, by binding id
    currentBinding, \* module-level currentBinding (0 = unset)
    pending,        \* asm.js runtimes loaded whose ready hook has not fired
    requireCache,   \* node's module cache: files loaded, with what they gave
    exc,            \* exception that left the public call ("none" if none)
    log             \* what happened so far, in order

vars == <<fs, cwd, envDir, pc, call, root, specList, cands, k, resolvedList, callback,
          libArg, libs, bindings, currentBinding, pending, requireCache, exc,
          log>>

(***************************************************************************)
(* Bounds of the model.                                                    *)
(***************************************************************************)
MaxFiles == 2       \* at most this many files exist on disk
MaxCalls == 2       \* at most this many init calls follow one another

(***************************************************************************)
(* Environment values.                                                     *)
(***************************************************************************)
NodeVersion == "6.9.1"          \* process.versions.node
Platform == "linux"             \* process.platform
Arch == "x64"                   \* process.arch
ProjectRoot == "/app"           \* the directory the build output lives in
Cwds == {"/app", "/home"}       \* values of process.cwd()
EnvDirs == {"", "prebuilt"}     \* values of NODE_BINDINGS_COMPILED_DIR

(***************************************************************************)
(* JavaScript values: undefined, false, strings, object references and     *)
(* functions, all of one record shape.                                     *)
(***************************************************************************)
Undefined == [t |-> "undefined", s |-> "", id |-> 0]
False == [t |-> "boolean", s |-> "false", id |-> 0]
True == [t |-> "boolean", s |-> "true", id |-> 0]
Str(s) == [t |-> "string", s |-> s, id |-> 0]
Obj(id) == [t |-> "object", s |-> "", id |-> id]
Fn(name) == [t |-> "function", s |-> name, id |-> 0]
Null == [t |-> "null", s |-> "", id |-> 0]
Num(n) == [t |-> "number", s |-> "", id |-> n]

\* typeof(v): typeof(null) is 'object'
TypeOf(v) == IF v.t = "null" THEN "object" ELSE v.t

Truthy(v) ==
    CASE v.t = "undefined" -> FALSE
      [] v.t = "null" -> FALSE
      [] v.t = "number" -> v.id # 0
      [] v.t = "boolean" -> v.s = "true"
      [] v.t = "string" -> v.s # ""
      [] OTHER -> TRUE

\* arguments[i] (1-based here); undefined beyond arguments.length
ArgAt(args, i) == IF i >= 1 /\ i <= Len(args) THEN args[i] ELSE Undefined

\* a && b, a || b
And(a, b) == IF Truthy(a) THEN b ELSE a
Or(a, b) == IF Truthy(a) THEN a ELSE b

\* a != b as a value (false when both are the same reference or string)
NotEq(a, b) == IF a = b THEN False ELSE True

(***************************************************************************)
(* Paths.                                                                  *)
(***************************************************************************)
NodeName == "nbind.node"
AsmName == "nbind.js"

\* path.resolve(...parts) for an absolute first part and plain segments
PathResolve(parts) ==
    LET RECURSIVE Join(_)
        Join(i) == IF i = 1 THEN parts[1] ELSE Join(i - 1) \o "/" \o parts[i]
    IN Join(Len(parts))

\* process.env['NODE_BINDINGS_COMPILED_DIR'] || 'compiled'
CompiledDir == IF envDir # "" THEN envDir ELSE "compiled"

\* makeModulePathList with the Release directories ahead of the Debug ones
makeModulePathListReleaseFirst(r, name) ==
    << <<r, "build", name>>,
       <<r, "build", "Release", name>>,
       <<r, "build", "Debug", name>>,
       <<r, "out", "Release", name>>,
       <<r, "Release", name>>,
       <<r, "out", "Debug", name>>,
       <<r, "Debug", name>>,
       <<r, "build", "default", name>>,
       <<r, CompiledDir, NodeVersion, Platform, Arch, name>> >>

makeModulePathList(r, name) ==
    << <<r, "build", name>>,
       <<r, "build", "Debug", name>>,
       <<r, "build", "Release", name>>,
       <<r, "out", "Debug", name>>,
       <<r, "Debug", name>>,
       <<r, "out", "Release", name>>,
       <<r, "Release", name>>,
       <<r, "build", "default", name>>,
       <<r, CompiledDir, NodeVersion, Platform, Arch, name>> >>

\* require.resolve(p) throws unless node finds a file for the request p.  An
\* entry of fs is one request node can satisfy: path is the request, real
\* the file name require.resolve returns for it, kind how it was found:
\* "file" (p is a regular file: p), "link" (p is a symbolic link: the real
\* path of its target), "ext" (only p.js exists: p.js) or "dir" (p is a
\* directory holding index.js: p/index.js).
File(p) == [path |-> p, real |-> p, kind |-> "file"]
Link(p, target) == [path |-> p, real |-> target, kind |-> "link"]
WithExtension(p) == [path |-> p, real |-> p \o ".js", kind |-> "ext"]
Directory(p) == [path |-> p, real |-> p \o "/index.js", kind |-> "dir"]

Resolves(p) == \E e \in fs : e.path = p
RequireResolve(p) == (CHOOSE e \in fs : e.path = p).real

\* The candidates of the two nested loops of findCompiledModule, in the
\* order the loops visit them: [spec |-> index in specList, path |-> string]
RECURSIVE Candidates(_, _, _)
Candidates(r, sl, i) ==
    IF i > Len(sl) THEN <<>>
    ELSE LET list == makeModulePathList(r, sl[i].name)
         IN [j \in 1..Len(list) |-> [spec |-> i, path |-> PathResolve(list[j])]]
            \o Candidates(r, sl, i + 1)

(***************************************************************************)
(* Export objects (DefaultExportType).  data holds the plain keys;         *)
(* locateFile is "none", "caller" (the caller's hook) or "nbind" (the      *)
(* closure initAsm installs, over binding locBind); onReady is the value   *)
(* of onRuntimeInitialized as the list of what it runs, innermost first:   *)
(* 0 is the caller's handler, b > 0 the wrapper initAsm made for binding   *)
(* b; ccall tells whether the runtime has put ccall on the object.         *)
(***************************************************************************)
EmptyData == [key \in {} |-> 0]
EmptyLib == [data |-> EmptyData, locateFile |-> "none", locBind |-> 0,
             onReady |-> <<>>, ccall |-> FALSE]

(***************************************************************************)
(* Module specs and the log.                                               *)
(***************************************************************************)
NodeSpec == [name |-> NodeName, type |-> "node", path |-> ""]
AsmSpec == [name |-> AsmName, type |-> "emcc", path |-> ""]

\* the list find() builds
FindSpecList == <<NodeSpec, AsmSpec>>

\* One entry of the log.  op is "resolveFail", "resolveOk", "catch" (the
\* catch branch taken because the callback threw), "load" (require of the
\* binary; err is what the load did), "ready", "userReady", "ccall", "cb" (a
\* completion callback called with err and, when err is "null", the spec or
\* binding), "uncaught" (an exception left the ready hook) or "call" (a
\* further init call entered, see CallInitRepeated).  "resolveOk" is
\* spec.path set and the spec handed to the callback; obj is the export
\* object of the binding as it is at that moment.
Ev(op) == [op |-> op, path |-> "", err |-> "null", spec |-> 0, lib |-> 0,
           bind |-> 0, tries |-> <<>>, obj |-> EmptyLib]

\* The part of the state a callback can change.
Machine == [specs |-> specList, libs |-> libs, bindings |-> bindings,
            cur |-> currentBinding, pend |-> pending, log |-> log,
            exc |-> "none", cache |-> requireCache]

Logged(m, e) == [m EXCEPT !.log = Append(@, e)]

(***************************************************************************)
(* Callbacks.                                                              *)
(***************************************************************************)
UserCallbacks == {"cbOk", "cbThrow"}

\* rethrow that returns without throwing
rethrowSwallowing(m, err) == m

\* rethrow(err, result)
rethrow(m, err) == IF err # "null" THEN [m EXCEPT !.exc = err] ELSE m

\* InvokeCallback that calls the callback a second time after it returned
InvokeCallbackTwice(m, cb, e) ==
    LET m1 == Logged(m, [e EXCEPT !.op = "cb"])
    IN CASE cb.s = "rethrow" -> rethrow(m1, e.err)
         [] cb.s = "cbThrow" -> [m1 EXCEPT !.exc = "CallbackError"]
         [] OTHER -> Logged(m1, [e EXCEPT !.op = "cb"])

\* A completion callback is called with (err, result); e describes the call.
\* cbOk returns normally, cbThrow raises, rethrow is the default callback.
InvokeCallback(m, cb, e) ==
    LET m1 == Logged(m, [e EXCEPT !.op = "cb"])
    IN CASE cb.s = "rethrow" -> rethrow(m1, e.err)
         [] cb.s = "cbThrow" -> [m1 EXCEPT !.exc = "CallbackError"]
         [] OTHER -> m1

(***************************************************************************)
(* The objects a caller passes as `lib`, and what require() returns.       *)
(***************************************************************************)
SeedData == ("a" :> 0) @@ ("x" :> 9)
Seeds == {[EmptyLib EXCEPT !.data = SeedData, !.locateFile = lf, !.onReady = h] :
            lf \in {"none", "caller"}, h \in {<<>>, <<0>>}}

\* what require() of a native addon may return
AddonExports == ("a" :> 1) @@ ("b" :> 2)
LoadValue(lo) ==
    CASE lo = "null" -> Null
      [] lo = "number" -> Num(42)
      [] OTHER -> [t |-> "object", s |-> "addon", id |-> 0]

\* the outcomes of require(binding.binary.path) when the file is run, by
\* binary type
LoadOutcomes(type) ==
    IF type = "emcc" THEN {"throw", "sync", "async"}
    ELSE {"throw", "null", "number", "object"}

\* The outcomes of require(file): a file that a require has loaded before
\* without throwing is not run again, require returns the exports it cached
\* ("cached" for an asm.js runtime: no throw, nothing runs, no ready hook
\* will fire; the value loaded before for a native addon).
RequireOutcomes(file, type) ==
    LET hit == {c \in requireCache : c.file = file}
    IN IF hit = {} THEN LoadOutcomes(type)
       ELSE IF type = "emcc" THEN {"cached"}
       ELSE {c.lo : c \in hit}

\* node keeps a module in its cache when the load has not thrown
Cached(m, file, lo) == [m EXCEPT !.cache = @ \cup {[file |-> file, lo |-> lo]}]

\* getLib returning the export object of the first binding ever made
getLibOfFirstBinding(m) == m.bindings[1].lib

\* getLib()
getLib(m) == m.bindings[m.cur].lib

\* The body of the function initAsm stores in lib.onRuntimeInitialized, run
\* on the value the property has when the runtime fires it: the previous
\* handler first, then lib.ccall('nbind_init'), then callback(null, binding).
RECURSIVE RunChain(_, _, _)
RunChain(m, chain, i) ==
    IF i > Len(chain) \/ m.exc # "none" THEN m
    ELSE IF chain[i] = 0
    THEN RunChain(Logged(m, Ev("userReady")), chain, i + 1)
    ELSE LET b == chain[i]
             bnd == m.bindings[b]
         IN IF ~m.libs[bnd.lib].ccall
            THEN [m EXCEPT !.exc = "TypeError"]
            ELSE RunChain(
                    InvokeCallback(
                        Logged(m, [Ev("ccall") EXCEPT !.bind = b, !.lib = bnd.lib]),
                        bnd.cb,
                        [Ev("cb") EXCEPT !.bind = b, !.lib = bnd.lib,
                                         !.spec = bnd.binary,
                                         !.obj = m.libs[bnd.lib],
                                         !.path = m.specs[bnd.binary].path]),
                    chain, i + 1)

\* RunReady that leaves out the handler the caller had put on the object
RunReadyWithoutCallerHandler(m, module) ==
    RunChain(Logged(m, [Ev("ready") EXCEPT !.lib = module]),
             SelectSeq(m.libs[module].onReady, LAMBDA h : h # 0), 1)

\* The runtime whose Module object is `module` invokes the ready hook.
RunReady(m, module) ==
    RunChain(Logged(m, [Ev("ready") EXCEPT !.lib = module]),
             m.libs[module].onReady, 1)

\* require(binding.binary.path) of an asm.js runtime whose Module object is
\* `module`: the file throws, or the runtime puts ccall on the object and
\* fires the ready hook during the load ("sync") or later ("async"); a file
\* loaded before is not run at all ("cached").  An exception that leaves the
\* ready hook during the load leaves require, and the file is not cached.
requireAsm(m, module, file, lo) ==
    CASE lo = "throw" -> [m EXCEPT !.exc = "LoadThrow"]
      [] lo = "cached" -> m
      [] lo = "sync" ->
            LET m1 == RunReady([m EXCEPT !.libs[module].ccall = TRUE], module)
            IN IF m1.exc = "none" THEN Cached(m1, file, lo) ELSE m1
      [] OTHER -> Cached([m EXCEPT !.libs[module].ccall = TRUE,
                                   !.pend = @ \cup {module}], file, lo)

\* initAsm with lib.locateFile assigned unconditionally
initAsmOverwritingLocateFile(m, b, lo) ==
    LET id == m.bindings[b].lib
        lib == m.libs[id]
        hooked == [lib EXCEPT !.locateFile = "nbind", !.locBind = b,
                              !.onReady = Append(@, b)]
        m1 == [m EXCEPT !.libs[id] = hooked, !.cur = b]
        path == m1.specs[m1.bindings[b].binary].path
        module == getLib(m1)
        loadEv == [Ev("load") EXCEPT !.path = path, !.bind = b, !.lib = module,
                                     !.spec = m1.bindings[b].binary, !.err = lo,
                                     !.obj = m1.libs[module]]
        m2 == Logged(m1, loadEv)
    IN requireAsm(m2, module, path, lo)

\* initAsm that leaves currentBinding alone once it is set
initAsmKeepingSlot(m, b, lo) ==
    LET id == m.bindings[b].lib
        lib == m.libs[id]
        hooked == [lib EXCEPT
                     !.locateFile = IF lib.locateFile # "none" THEN @ ELSE "nbind",
                     !.locBind = IF lib.locateFile # "none" THEN @ ELSE b,
                     !.onReady = Append(@, b)]
        m1 == [m EXCEPT !.libs[id] = hooked, !.cur = IF @ = 0 THEN b ELSE @]
        path == m1.specs[m1.bindings[b].binary].path
        module == getLib(m1)
        loadEv == [Ev("load") EXCEPT !.path = path, !.bind = b, !.lib = module,
                                     !.spec = m1.bindings[b].binary, !.err = lo,
                                     !.obj = m1.libs[module]]
        m2 == Logged(m1, loadEv)
    IN requireAsm(m2, module, path, lo)

initAsm(m, b, lo) ==
    LET id == m.bindings[b].lib
        lib == m.libs[id]
        hooked == [lib EXCEPT
                     !.locateFile = IF lib.locateFile # "none" THEN @ ELSE "nbind",
                     !.locBind = IF lib.locateFile # "none" THEN @ ELSE b,
                     !.onReady = Append(@, b)]
        m1 == [m EXCEPT !.libs[id] = hooked, !.cur = b]
        path == m1.specs[m1.bindings[b].binary].path
        module == getLib(m1)
        loadEv == [Ev("load") EXCEPT !.path = path, !.bind = b, !.lib = module,
                                     !.spec = m1.bindings[b].binary, !.err = lo,
                                     !.obj = m1.libs[module]]
        m2 == Logged(m1, loadEv)
    IN requireAsm(m2, module, path, lo)

\* Merge that keeps the target's value of a key both objects have
MergeKeepingTarget(target, table) ==
    [key \in DOMAIN target \cup DOMAIN table |->
        IF key \in DOMAIN target THEN target[key] ELSE table[key]]

\* Object.keys(lib).forEach(key => binding.lib[key] = lib[key])
Merge(target, table) ==
    [key \in DOMAIN target \cup DOMAIN table |->
        IF key \in DOMAIN table THEN table[key] ELSE target[key]]

initNode(m, b, lo) ==
    LET id == m.bindings[b].lib
        s == m.bindings[b].binary
        path == m.specs[s].path
        m1 == Logged(m, [Ev("load") EXCEPT !.path = path, !.bind = b, !.lib = id,
                                           !.spec = s, !.err = lo])
        lib == LoadValue(lo)
        m2 == Cached(m1, path, lo)
    IN IF lo = "throw" THEN [m1 EXCEPT !.exc = "LoadThrow"]
       ELSE IF ~Truthy(lib) \/ TypeOf(lib) # "object"
       THEN InvokeCallback(m2, m.bindings[b].cb,
                           [Ev("cb") EXCEPT !.err = "AddonError"])
       ELSE LET merged == [m.libs[id] EXCEPT !.data = Merge(@, AddonExports)]
            IN InvokeCallback(
                [m2 EXCEPT !.libs[id] = merged],
                m.bindings[b].cb,
                [Ev("cb") EXCEPT !.bind = b, !.lib = id, !.spec = s, !.path = path,
                                 !.obj = merged])

\* The callback init passes to find: (err, binary) => ...
InitClosure(m, err, tries, s, lo) ==
    IF err # "null"
    THEN InvokeCallback(m, callback, [Ev("cb") EXCEPT !.err = err, !.tries = tries])
    ELSE LET seed == And(NotEq(libArg, callback), libArg)
             fresh == ~Truthy(seed)
             id == IF fresh THEN Len(m.libs) + 1 ELSE seed.id
             b == Len(m.bindings) + 1
             m1 == [m EXCEPT
                      !.libs = IF fresh THEN Append(@, EmptyLib) ELSE @,
                      !.bindings = Append(@, [binary |-> s, lib |-> id,
                                              cb |-> callback])]
         IN IF m.specs[s].type = "emcc" THEN initAsm(m1, b, lo)
            ELSE initNode(m1, b, lo)

\* callback(err, spec) as findCompiledModule calls it
FindCallback(m, err, tries, s, lo) ==
    IF call.fn = "init" THEN InitClosure(m, err, tries, s, lo)
    ELSE InvokeCallback(m, callback,
            [Ev("cb") EXCEPT !.err = err, !.tries = tries, !.spec = s,
                             !.path = IF s = 0 THEN "" ELSE m.specs[s].path])

(***************************************************************************)
(* Initial states: the environment the calls run in.                       *)
(***************************************************************************)
RECURSIVE SubsetsUpTo(_, _)
SubsetsUpTo(S, n) ==
    IF n = 0 THEN {{}}
    ELSE LET smaller == SubsetsUpTo(S, n - 1)
         IN smaller \cup {T \cup {x} : T \in smaller, x \in S}

\* The places of makeModulePathList's list where a build may have left a
\* binary as a regular file: build, build/Release and the compiled
\* directory.
BuildDirs == {1, 3, 9}

\* the candidate path of one name at one place of the list
CandidateAt(i, name) == PathResolve(makeModulePathList(ProjectRoot, name)[i])

\* What may be on disk under the project root: a regular file of either
\* name in each build directory; build/nbind.node as node-gyp's link to
\* build/Release/nbind.node; build/nbind.js.js alone; Release/nbind.node
\* as a directory holding index.js.
Disk ==
    {File(CandidateAt(i, name)) : name \in {NodeName, AsmName}, i \in BuildDirs}
    \cup {Link(CandidateAt(1, NodeName), CandidateAt(3, NodeName)),
          WithExtension(CandidateAt(1, AsmName)),
          Directory(CandidateAt(7, NodeName))}

\* a path is one thing only, and a link resolves when its target is a file
WellFormedDisk(S) ==
    /\ \A e1, e2 \in S : e1.path = e2.path => e1 = e2
    /\ \A e \in S : e.kind = "link" => File(e.real) \in S

Init ==
    /\ envDir \in EnvDirs
    /\ cwd \in Cwds
    /\ fs \in {S \in SubsetsUpTo(Disk, MaxFiles) : WellFormedDisk(S)}
    /\ pc = "idle"
    /\ call = [fn |-> "none", args |-> <<>>, seed |-> EmptyLib]
    /\ root = ""
    /\ specList = <<>>
    /\ cands = <<>>
    /\ k = 0
    /\ resolvedList = <<>>
    /\ callback = Undefined
    /\ libArg = Undefined
    /\ libs = <<>>
    /\ bindings = <<>>
    /\ currentBinding = 0
    /\ pending = {}
    /\ requireCache = {}
    /\ exc = "none"
    /\ log = <<>>

(***************************************************************************)
(* The public calls.                                                       *)
(***************************************************************************)
RootArgs == {Str(ProjectRoot)}
CallbackArgs == {Fn(c) : c \in UserCallbacks}
SeedArg == Obj(1)

FindArgs ==
    {<<>>} \cup {<<r>> : r \in RootArgs} \cup {<<c>> : c \in CallbackArgs}
    \cup {<<r, c>> : r \in RootArgs, c \in CallbackArgs}

InitArgs ==
    FindArgs \cup {<<r, SeedArg>> : r \in RootArgs}
    \cup {<<r, SeedArg, c>> : r \in RootArgs, c \in CallbackArgs}

\* the lists findCompiledModule is applied to
SpecLists == {<<>>, <<NodeSpec>>, <<AsmSpec>>, <<NodeSpec, AsmSpec>>,
              <<AsmSpec, NodeSpec>>}

\* ResolveCallback looking at the first argument instead of the last
ResolveCallbackFirstArgument(args) ==
    LET first == ArgAt(args, 1)
    IN IF TypeOf(first) # "function" THEN Fn("rethrow") ELSE first

\* let callback = arguments[arguments.length - 1];
\* if(typeof(callback) != 'function') callback = rethrow;
ResolveCallback(args) ==
    LET last == ArgAt(args, Len(args))
    IN IF TypeOf(last) # "function" THEN Fn("rethrow") ELSE last

\* (basePath != callback && basePath) || process.cwd()
ResolveRoot(basePath, cb) == Or(And(NotEq(basePath, cb), basePath), Str(cwd)).s

Enter(fn, args, r, cb, lib, heap, sl) ==
    /\ pc = "idle"
    /\ pc' = "search"
    /\ call' = [fn |-> fn, args |-> args,
                 seed |-> IF heap = <<>> THEN EmptyLib ELSE heap[1]]
    /\ root' = r
    /\ specList' = sl
    /\ cands' = Candidates(r, sl, 1)
    /\ k' = 0
    /\ resolvedList' = <<>>
    /\ callback' = cb
    /\ libArg' = lib
    /\ libs' = heap
    /\ UNCHANGED <<fs, cwd, envDir, bindings, currentBinding, pending,
                   requireCache, exc, log>>

\* find(basePath?, cb?)
CallFind ==
    \E args \in FindArgs :
        LET cb == ResolveCallback(args)
        IN Enter("find", args, ResolveRoot(ArgAt(args, 1), cb), cb, Undefined,
                 <<>>, FindSpecList)

\* init(basePath?, lib?, cb?): find(basePath != callback && basePath, closure)
CallInit ==
    \E args \in InitArgs, seed \in Seeds :
        LET cb == ResolveCallback(args)
            closure == Fn("closure")
            supplied == \E i \in 1..Len(args) : args[i] = SeedArg
            basePath == And(NotEq(ArgAt(args, 1), cb), ArgAt(args, 1))
        IN /\ supplied \/ seed = EmptyLib \/ seed = CHOOSE x \in Seeds : TRUE
           /\ Enter("init", args, ResolveRoot(basePath, closure), cb,
                    ArgAt(args, 2), IF supplied THEN <<seed>> ELSE <<>>,
                    FindSpecList)

\* findCompiledModule(root, specList, callback)
CallLocate ==
    \E r \in {cwd, ProjectRoot}, sl \in SpecLists, c \in CallbackArgs :
        Enter("locate", <<Str(r), c>>, r, c, Undefined, <<>>, sl)

(***************************************************************************)
(* findCompiledModule: the loops.                                          *)
(***************************************************************************)
\* indexes of the candidates not probed yet that resolve
Hits(c) == {j \in (k + 1)..Len(c) : Resolves(c[j].path)}

Min(S) == CHOOSE x \in S : \A y \in S : x <= y

\* Failed without the push for the first of the candidates
FailedSkippingFirst(c, from, to) ==
    [j \in 1..(to - from) |-> c[from + j].path]

\* the catch branch of the candidates from..to: resolvedList.push(resolvedPath)
Failed(c, from, to) == [j \in 1..(to - from + 1) |-> c[from + j - 1].path]

FailEvents(c, from, to) ==
    [j \in 1..(to - from + 1) |->
        [Ev("resolveFail") EXCEPT !.path = c[from + j - 1].path,
                                  !.spec = c[from + j - 1].spec]]

Commit(m) ==
    /\ specList' = m.specs
    /\ libs' = m.libs
    /\ bindings' = m.bindings
    /\ currentBinding' = m.cur
    /\ pending' = m.pend
    /\ requireCache' = m.cache

\* The iterations up to and including the next candidate that resolves:
\* spec.path = require.resolve(resolvedPath); return(callback(null, spec)),
\* and the catch branch when the callback throws.
ProbeHit ==
    /\ pc = "search"
    /\ LET c == cands
       IN /\ Hits(c) # {}
          /\ LET j == Min(Hits(c))
                 s == c[j].spec
                 p == c[j].path
                 m0 == [Machine EXCEPT
                          !.specs[s].path = RequireResolve(p),
                          !.log = @ \o FailEvents(c, k + 1, j - 1)
                                    \o <<[Ev("resolveOk") EXCEPT !.path = p,
                                                                 !.spec = s]>>]
                 loads == IF call.fn # "init" THEN {"throw"}
                          ELSE RequireOutcomes(RequireResolve(p), specList[s].type)
             IN \E lo \in loads :
                    LET m1 == FindCallback(m0, "null", <<>>, s, lo)
                    IN /\ Commit(m1)
                       /\ k' = j
                       /\ IF m1.exc = "none"
                          THEN /\ pc' = "returned"
                               /\ resolvedList' = resolvedList \o Failed(c, k + 1, j - 1)
                               /\ log' = m1.log
                          ELSE /\ pc' = "search"
                               /\ resolvedList' =
                                     resolvedList \o Failed(c, k + 1, j - 1) \o <<p>>
                               /\ log' = Append(m1.log,
                                     [Ev("catch") EXCEPT !.path = p, !.err = m1.exc])
    /\ UNCHANGED <<fs, cwd, envDir, call, root, cands, callback, libArg, exc>>

\* The remaining iterations when no candidate resolves any more, and the
\* code after the loops: callback(err) with err.tries = resolvedList.
ProbeExhausted ==
    /\ pc = "search"
    /\ LET c == cands
       IN /\ Hits(c) = {}
          /\ LET tries == resolvedList \o Failed(c, k + 1, Len(c))
                 m0 == [Machine EXCEPT !.log = @ \o FailEvents(c, k + 1, Len(c))]
                 m1 == FindCallback(m0, "SearchError", tries, 0, "throw")
             IN /\ Commit(m1)
                /\ k' = Len(c)
                /\ resolvedList' = tries
                /\ log' = m1.log
                /\ exc' = m1.exc
                /\ pc' = IF m1.exc = "none" THEN "returned" ELSE "threw"
    /\ UNCHANGED <<fs, cwd, envDir, call, root, cands, callback, libArg>>

\* An asm.js runtime loaded earlier becomes ready and invokes
\* Module.onRuntimeInitialized, after the call that loaded it has returned.
RuntimeReady ==
    /\ pc \in {"returned", "threw"}
    /\ \E module \in pending :
        LET m1 == RunReady(Machine, module)
        IN /\ Commit([m1 EXCEPT !.pend = @ \ {module}])
           /\ log' = IF m1.exc = "none" THEN m1.log
                     ELSE Append(m1.log, [Ev("uncaught") EXCEPT !.err = m1.exc])
    /\ UNCHANGED <<fs, cwd, envDir, pc, call, root, cands, k, resolvedList, callback,
                   libArg, exc>>

Next ==
    \/ CallFind
    \/ CallInit
    \/ CallLocate
    \/ ProbeHit
    \/ ProbeExhausted
    \/ RuntimeReady

Spec == Init /\ [][Next]_vars

(***************************************************************************)
(* Several init calls in one process: a further init may be called once    *)
(* the previous call has returned, while asm.js runtimes loaded earlier    *)
(* have not fired their ready hook yet.  specList then holds the spec      *)
(* objects of all calls (each find builds new ones) and cands those of the *)
(* call in progress.                                                       *)
(***************************************************************************)
RepeatedArgs == {<<r, c>> : r \in RootArgs, c \in CallbackArgs}

\* init(basePath, cb), the first call or a later one
CallInitRepeated ==
    /\ pc \in {"idle", "returned", "threw"}
    /\ Cardinality({i \in DOMAIN log : log[i].op = "call"}) < MaxCalls
    /\ \E args \in RepeatedArgs :
          LET cb == ResolveCallback(args)
              basePath == And(NotEq(ArgAt(args, 1), cb), ArgAt(args, 1))
              r == ResolveRoot(basePath, Fn("closure"))
              heap == specList \o FindSpecList
          IN /\ call' = [fn |-> "init", args |-> args, seed |-> EmptyLib]
             /\ root' = r
             /\ specList' = heap
             /\ cands' = Candidates(r, heap, Len(specList) + 1)
             /\ callback' = cb
             /\ libArg' = ArgAt(args, 2)
    /\ pc' = "search"
    /\ k' = 0
    /\ resolvedList' = <<>>
    /\ exc' = "none"
    /\ log' = Append(log, Ev("call"))
    /\ UNCHANGED <<fs, cwd, envDir, libs, bindings, currentBinding, pending,
                   requireCache>>

\* the file systems the repeated calls run on: nothing built, one or two
\* asm.js builds, a native and an asm.js build
ConcurrentDisks ==
    LET at(i, name) == File(CandidateAt(i, name))
    IN {{}, {at(1, AsmName)}, {at(1, AsmName), at(3, AsmName)},
        {at(1, NodeName), at(1, AsmName)}}

InitConcurrent ==
    /\ Init
    /\ cwd = ProjectRoot
    /\ envDir = ""
    /\ fs \in ConcurrentDisks

NextConcurrent ==
    \/ CallInitRepeated
    \/ ProbeHit
    \/ ProbeExhausted
    \/ RuntimeReady

SpecConcurrent == InitConcurrent /\ [][NextConcurrent]_vars

(***************************************************************************)
(* Vocabulary of the properties.                                           *)
(***************************************************************************)
Finished == pc \in {"returned", "threw"}

\* positions of the log entries of one kind
At(op) == {i \in DOMAIN log : log[i].op = op}

\* the candidates of the call in progress that resolve, by position
Resolving == {j \in DOMAIN cands : Resolves(cands[j].path)}

\* the paths of all candidates, in the order of (spec order, path order)
ProbeOrder == [j \in DOMAIN cands |-> cands[j].path]

\* a native load that failed: require threw, or returned a non-object
FailedNativeLoads ==
    {i \in At("load") : /\ specList[log[i].spec].type = "node"
                        /\ log[i].err \in {"throw", "null", "number"}}

\* the caller passed a completion callback that returns normally
WellBehavedCaller == callback.s = "cbOk"

(***************************************************************************)
(* C1: whenever findCompiledModule hands a spec to its callback, that spec *)
(* owns the first candidate that resolves in (spec order, path order) and  *)
(* the probe that succeeded is of that candidate; a spec whose candidate   *)
(* comes later in the order is never handed over.  For callers whose       *)
(* callback returns normally (the claim covers every callback).            *)
(***************************************************************************)
C1_OnlyFirstResolvingDelivered ==
    WellBehavedCaller =>
        \A i \in At("resolveOk") :
            /\ Resolving # {}
            /\ log[i].path = cands[Min(Resolving)].path
            /\ log[i].spec = cands[Min(Resolving)].spec

(***************************************************************************)
(* C2: when no candidate resolves, the callback is called with the search  *)
(* error, and err.tries has 9 entries per spec: the candidate paths in the *)
(* order they were probed.                                                 *)
(***************************************************************************)
C2_TriesListAllProbesInOrder ==
    (Finished /\ Resolving = {}) =>
        /\ At("cb") # {}
        /\ \A i \in At("cb") :
            /\ log[i].err = "SearchError"
            /\ Len(log[i].tries) = 9 * Len(specList)
            /\ log[i].tries = ProbeOrder

C2_Witness ==
    /\ Finished
    /\ Resolving = {}
    /\ Len(specList) = 2
    /\ fs # {}
    /\ \E i \in At("cb") : Len(log[i].tries) = 18

(***************************************************************************)
(* C3: after a native load that failed, no further candidate is probed, no *)
(* other binary is loaded, and the error the completion callback receives  *)
(* is the load failure, not the search failure.  Stated here for callers   *)
(* whose completion callback returns normally.                             *)
(***************************************************************************)
C3_NoFallbackAfterFailedLoad ==
    WellBehavedCaller =>
        \A i \in FailedNativeLoads :
            /\ \A j \in DOMAIN log :
                  j > i => log[j].op \notin {"resolveFail", "resolveOk", "load"}
            /\ \A j \in At("cb") : log[j].err # "SearchError"
            /\ Finished => \E j \in At("cb") : j > i /\ log[j].err # "null"

(***************************************************************************)
(* C4: when require of the native addon returns null, the completion       *)
(* callback receives the load failure as its first argument and is not     *)
(* called a second time, whichever callback it is (the default rethrow     *)
(* included).                                                              *)
(***************************************************************************)
C4_NullLoadCallsBackOnce ==
    \A i \in At("load") :
        (specList[log[i].spec].type = "node" /\ log[i].err = "null") =>
            /\ \E j \in At("cb") : j = i + 1 /\ log[j].err = "AddonError"
            /\ Cardinality(At("cb")) = 1

(***************************************************************************)
(* C5: on the asm.js path the completion callback fires exactly once per   *)
(* init call, after the ready hook has fired and after ccall('nbind_init') *)
(* has been invoked.  Stated here for callers whose completion callback    *)
(* returns normally and for an init call whose runtime has become ready.   *)
(***************************************************************************)
C5_AsmCallbackOnceAfterReady ==
    (WellBehavedCaller /\ call.fn = "init" /\ At("ready") # {}) =>
        /\ Cardinality(At("cb")) = 1
        /\ \A i \in At("cb") :
              /\ \E j \in At("ready") : j < i
              /\ \E j \in At("ccall") : j < i

(***************************************************************************)
(* C6: with a completion callback supplied, every error of find and init   *)
(* reaches the caller through the callback's first argument and none       *)
(* leaves the call as an exception: once the call is over, a load that     *)
(* threw has been reported to the callback.                                *)
(***************************************************************************)
C6_ErrorsOnlyThroughCallback ==
    (WellBehavedCaller /\ call.fn \in {"find", "init"}) =>
        /\ exc = "none"
        /\ Finished =>
              \A i \in At("load") :
                  log[i].err = "throw" =>
                      \E j \in At("cb") : j > i /\ log[j].err = "LoadThrow"

(***************************************************************************)
(* C7: when require of the native addon returns an object, the completion  *)
(* callback receives a binding whose lib holds every key of the loaded     *)
(* table with the loaded value and every other key of the seed with its    *)
(* original value, hooks included; the lib is the seed object itself when  *)
(* one was passed, and holds the loaded keys alone when none was.          *)
(***************************************************************************)
SeedSupplied == \E i \in DOMAIN call.args : call.args[i] = SeedArg

C7_NativeExportsMergedOntoSeed ==
    \A i \in At("load") :
        (specList[log[i].spec].type = "node" /\ log[i].err = "object") =>
            /\ i + 1 \in At("cb")
            /\ LET e == log[i + 1]
                   kept == DOMAIN call.seed.data \ DOMAIN AddonExports
               IN /\ e.err = "null"
                  /\ e.bind = log[i].bind
                  /\ SeedSupplied => e.lib = SeedArg.id
                  /\ DOMAIN e.obj.data = DOMAIN AddonExports \cup DOMAIN call.seed.data
                  /\ \A key \in DOMAIN AddonExports : e.obj.data[key] = AddonExports[key]
                  /\ \A key \in kept : e.obj.data[key] = call.seed.data[key]
                  /\ e.obj.locateFile = call.seed.locateFile
                  /\ e.obj.onReady = call.seed.onReady

C7_Witness ==
    /\ SeedSupplied
    /\ \E i \in At("cb") :
          /\ log[i].err = "null"
          /\ specList[log[i].spec].type = "node"
          /\ log[i].obj.data = ("a" :> 1) @@ ("b" :> 2) @@ ("x" :> 9)

(***************************************************************************)
(* C8: init(callback), init(rootPath, callback) and init(rootPath,         *)
(* exportsSeed, callback) use the trailing function as the completion      *)
(* callback, rootPath as the search root when given and the working        *)
(* directory otherwise, exportsSeed as the export object when given and a  *)
(* new empty object otherwise; the callback is neither root nor object.    *)
(***************************************************************************)
TrailingCallback ==
    /\ call.args # <<>>
    /\ TypeOf(call.args[Len(call.args)]) = "function"

C8_TrailingArgumentIsCallback ==
    (call.fn = "init" /\ TrailingCallback) =>
        LET n == Len(call.args)
        IN /\ callback = call.args[n]
           /\ root = IF n >= 2 THEN call.args[1].s ELSE cwd
           /\ (pc = "search" /\ k = 0) =>
                 \A j \in DOMAIN cands : cands[j].path \in
                     {PathResolve(makeModulePathList(root, name)[d]) :
                         name \in {NodeName, AsmName}, d \in 1..9}
           /\ \A b \in DOMAIN bindings :
                 /\ bindings[b].cb = call.args[n]
                 /\ bindings[b].lib \in DOMAIN libs
                 /\ IF n = 3 THEN Obj(bindings[b].lib) = call.args[2]
                    ELSE /\ libs = [x \in DOMAIN bindings |-> libs[x]]
                         /\ bindings[b].lib = b
                         /\ call.seed = EmptyLib
           /\ \A i \in At("cb") :
                 (log[i].err = "null" /\ n < 3 /\ specList[log[i].spec].type = "node")
                     => log[i].obj.data = AddonExports

C8_Witness ==
    /\ call.fn = "init"
    /\ Len(call.args) = 3
    /\ TrailingCallback
    /\ root # cwd
    /\ bindings # <<>>
    /\ \E i \in At("cb") : log[i].err = "null" /\ log[i].lib = SeedArg.id

(***************************************************************************)
(* C9: initAsm installs its own locateFile only on an export object that   *)
(* has none: a locateFile the caller put on the seed is the one on the     *)
(* object when the runtime file is loaded and in every later state.        *)
(***************************************************************************)
C9_CallerLocateFileKept ==
    /\ \A i \in At("load") :
          specList[log[i].spec].type = "emcc" =>
              log[i].obj.locateFile =
                  IF SeedSupplied /\ call.seed.locateFile = "caller"
                  THEN "caller" ELSE "nbind"
    /\ \A id \in DOMAIN libs :
          /\ (SeedSupplied /\ call.seed.locateFile = "caller")
                => (libs[id].locateFile = "caller" /\ libs[id].locBind = 0)
          /\ libs[id].locateFile = "nbind" =>
                \E i \in At("load") :
                    specList[log[i].spec].type = "emcc" /\ log[i].lib = id

C9_Witness ==
    /\ call.seed.locateFile = "caller"
    /\ \E i \in At("load") :
          /\ specList[log[i].spec].type = "emcc"
          /\ log[i].err # "throw"
          /\ log[i].obj.locateFile = "caller"
    /\ At("ready") # {}

(***************************************************************************)
(* C10: makeModulePathList(root, name) is the 9 paths build, build/Debug,  *)
(* build/Release, out/Debug, Debug, out/Release, Release, build/default    *)
(* and <compiled-dir>/<version>/<platform>/<arch> under root, in this      *)
(* order, each ending in name, where compiled-dir is                       *)
(* NODE_BINDINGS_COMPILED_DIR when set and 'compiled' otherwise: the list  *)
(* depends on root, name and the environment only.                         *)
(***************************************************************************)
ExpectedPaths(r, name) ==
    LET dir == IF envDir = "" THEN "compiled" ELSE envDir
    IN << r \o "/build/" \o name,
          r \o "/build/Debug/" \o name,
          r \o "/build/Release/" \o name,
          r \o "/out/Debug/" \o name,
          r \o "/Debug/" \o name,
          r \o "/out/Release/" \o name,
          r \o "/Release/" \o name,
          r \o "/build/default/" \o name,
          r \o "/" \o dir \o "/" \o NodeVersion \o "/" \o Platform \o "/"
            \o Arch \o "/" \o name >>

C10_NineCandidatesInFixedOrder ==
    (pc = "search" /\ k = 0) =>
        /\ Len(cands) = 9 * Len(specList)
        /\ \A s \in DOMAIN specList :
              \A d \in 1..9 :
                  cands[9 * (s - 1) + d] =
                      [spec |-> s, path |-> ExpectedPaths(root, specList[s].name)[d]]

C10_Witness ==
    /\ pc = "search"
    /\ k = 0
    /\ envDir = "prebuilt"
    /\ Len(specList) = 2
    /\ cands[18].path = "/app/prebuilt/6.9.1/linux/x64/nbind.js"

(***************************************************************************)
(* C11: on the native-addon path the completion callback of init is called *)
(* before the init call returns, whether the load succeeded or failed: in  *)
(* no state has init returned with an nbind.node resolved and the          *)
(* completion callback not called yet.  Stated here for callers whose      *)
(* completion callback returns normally.                                   *)
(***************************************************************************)
NativeResolved == {i \in At("resolveOk") : specList[log[i].spec].type = "node"}

C11_NativeCallbackBeforeReturn ==
    (WellBehavedCaller /\ call.fn = "init" /\ Finished /\ NativeResolved # {})
        => At("cb") # {}

(***************************************************************************)
(* C12: when the last argument of find or init is not a function, or there *)
(* is no argument, the completion callback is rethrow and every argument   *)
(* is a leading one: the first is the search root, the second (init) the   *)
(* export object of the binding; a search in which no candidate resolves   *)
(* throws the search error out of the find or init call.                   *)
(***************************************************************************)
DefaultCallback == call.fn \in {"find", "init"} /\ ~TrailingCallback

C12_DefaultCallbackRethrows ==
    DefaultCallback =>
        LET n == Len(call.args)
        IN /\ callback = Fn("rethrow")
           /\ root = IF n >= 1 THEN call.args[1].s ELSE cwd
           /\ \A b \in DOMAIN bindings :
                 /\ bindings[b].cb = Fn("rethrow")
                 /\ IF n = 2 THEN Obj(bindings[b].lib) = call.args[2]
                    ELSE bindings[b].lib = b /\ call.seed = EmptyLib
           /\ (Finished /\ Resolving = {}) =>
                 /\ pc = "threw"
                 /\ exc = "SearchError"
                 /\ log[Len(log)].op = "cb"
                 /\ log[Len(log)].err = "SearchError"
                 /\ log[Len(log)].tries = ProbeOrder
                 /\ Cardinality(At("cb")) = 1

C12_Witness ==
    /\ call.fn = "init"
    /\ call.args = <<Str(ProjectRoot), SeedArg>>
    /\ cwd # ProjectRoot
    /\ pc = "threw"
    /\ exc = "SearchError"
    /\ Len(log[Len(log)].tries) = 18

(***************************************************************************)
(* C13: once a candidate has resolved and its spec has been handed to the  *)
(* callback, findCompiledModule probes no further candidate and no further *)
(* spec in that call, whatever the callback does (a callback that throws   *)
(* included).                                                              *)
(***************************************************************************)
C13_NoProbeAfterDelivery ==
    \A i \in At("resolveOk") :
        \A j \in DOMAIN log :
            j > i => log[j].op \notin {"resolveFail", "resolveOk"}

(***************************************************************************)
(* C14: resolvedList (err.tries) holds only paths that were probed and did *)
(* not resolve: no path that require.resolve accepts is ever in the list.  *)
(* Stated here for callers whose completion callback returns normally.     *)
(***************************************************************************)
C14_TriesHoldOnlyUnresolvedPaths ==
    WellBehavedCaller =>
        \A i \in DOMAIN resolvedList : ~Resolves(resolvedList[i])

(***************************************************************************)
(* C15: when initAsm loads the runtime file of a binding, currentBinding   *)
(* is that binding and its export object already carries locateFile and    *)
(* the onRuntimeInitialized wrapper made for it: getLib() called during    *)
(* the load returns the export object of the binding being loaded.         *)
(***************************************************************************)
AsmLoads == {i \in At("load") : specList[log[i].spec].type = "emcc"}

Max(S) == CHOOSE x \in S : \A y \in S : x >= y

C15_SlotSetBeforeAsmLoad ==
    /\ \A i \in AsmLoads :
          /\ log[i].bind \in DOMAIN bindings
          /\ log[i].lib = bindings[log[i].bind].lib
          /\ log[i].obj.locateFile # "none"
          /\ log[i].obj.onReady # <<>>
          /\ log[i].obj.onReady[Len(log[i].obj.onReady)] = log[i].bind
    /\ AsmLoads # {} => currentBinding = log[Max(AsmLoads)].bind
    /\ AsmLoads = {} => currentBinding = 0

C15_Witness ==
    \E i \in AsmLoads :
        /\ log[i].err = "async"
        /\ log[i].bind = 2
        /\ log[i].lib = 2
        /\ currentBinding = 2
        /\ bindings[1].lib = 1

(***************************************************************************)
(* C16: currentBinding is one slot that every initAsm overwrites.  While   *)
(* the runtime of an asm.js load has not fired its ready hook: if a later  *)
(* initAsm has started since, getLib() returns the export object of the    *)
(* latest one, which is not the object of the waiting runtime; if none     *)
(* has, getLib() returns the export object of the waiting runtime.         *)
(***************************************************************************)
\* the asm.js loads whose runtime has not become ready yet
InFlight == {i \in AsmLoads : log[i].err = "async" /\ log[i].lib \in pending}

C16_SlotOverwrittenBySecondInit ==
    \A i \in InFlight :
        LET later == {j \in AsmLoads : j > i}
        IN IF later # {}
           THEN /\ getLib(Machine) = bindings[log[Max(later)].bind].lib
                /\ getLib(Machine) # log[i].lib
           ELSE getLib(Machine) = log[i].lib

C16_Witness ==
    \E i, j \in InFlight :
        /\ i < j
        /\ \E c \in DOMAIN log : i < c /\ c < j /\ log[c].op = "call"
        /\ log[i].lib = bindings[log[i].bind].lib
        /\ getLib(Machine) = log[j].lib
        /\ getLib(Machine) # log[i].lib

(***************************************************************************)
(* C17: an onRuntimeInitialized handler the caller put on the seed object  *)
(* is kept.  Each time a runtime fires the ready hook of an object, the    *)
(* caller's handler (when there is one) runs first, then                   *)
(* ccall('nbind_init'), then the completion callback with (null, binding)  *)
(* for a binding over that object; the caller's handler runs at no other   *)
(* moment.                                                                 *)
(***************************************************************************)
CallerHandler == SeedSupplied /\ call.seed.onReady # <<>>

C17_ReadyRunsHandlerThenCcallThenCallback ==
    /\ \A r \in At("ready") :
          LET h == IF CallerHandler THEN 1 ELSE 0
          IN /\ r + h + 2 \in DOMAIN log
             /\ CallerHandler => log[r + 1].op = "userReady"
             /\ log[r + h + 1].op = "ccall"
             /\ log[r + h + 2].op = "cb"
             /\ log[r + h + 2].err = "null"
             /\ log[r + h + 2].bind = log[r + h + 1].bind
             /\ bindings[log[r + h + 2].bind].lib = log[r].lib
    /\ \A u \in At("userReady") : CallerHandler /\ u - 1 \in At("ready")
    /\ \A id \in DOMAIN libs :
          CallerHandler => (libs[id].onReady # <<>> /\ libs[id].onReady[1] = 0)

C17_Witness ==
    /\ CallerHandler
    /\ pc = "returned"
    /\ pending = {}
    /\ \E r \in At("ready") :
          /\ log[r - 1].op = "load"
          /\ log[r - 1].err = "async"
          /\ log[r + 1].op = "userReady"
          /\ log[r + 2].op = "ccall"
          /\ log[r + 3].op = "cb"
          /\ log[r + 3].lib = SeedArg.id

(***************************************************************************)
(* C18: while the runtime of an asm.js load has not fired the ready hook,  *)
(* the completion callback of that init call has not been called, with a   *)
(* binding or with an error, whichever callback it is; only the ready hook *)
(* completes the call.                                                     *)
(***************************************************************************)
C18_NoCompletionWithoutReady ==
    \A i \in InFlight : At("cb") = {}

(***************************************************************************)
(* C19: with a completion callback that returns normally, find calls it    *)
(* exactly once before it returns, with (null, spec) when a candidate      *)
(* resolves and with the search error alone when none does; init calls it  *)
(* exactly once when the call ends in the search error and when the native *)
(* addon is loaded by a require that does not throw.                       *)
(***************************************************************************)
NativeLoadsReturned ==
    {i \in At("load") : /\ specList[log[i].spec].type = "node"
                        /\ log[i].err \in {"null", "number", "object"}}

C19_CallbackExactlyOnce ==
    WellBehavedCaller =>
        /\ (call.fn = "find" /\ ~Finished) => At("cb") = {}
        /\ (call.fn = "find" /\ Finished) =>
              /\ pc = "returned"
              /\ Cardinality(At("cb")) = 1
              /\ \A i \in At("cb") :
                    IF Resolving # {}
                    THEN /\ log[i].err = "null"
                         /\ log[i].spec = cands[Min(Resolving)].spec
                         /\ log[i].path = RequireResolve(cands[Min(Resolving)].path)
                    ELSE /\ log[i].err = "SearchError"
                         /\ log[i].spec = 0
        /\ (call.fn = "init" /\ Finished) =>
              ((\/ \E i \in At("cb") : log[i].err = "SearchError"
                \/ NativeLoadsReturned # {})
                  => /\ pc = "returned"
                     /\ Cardinality(At("cb")) = 1)

C19_Witness ==
    /\ WellBehavedCaller
    /\ call.fn = "find"
    /\ pc = "returned"
    /\ Cardinality(Resolving) = 2
    /\ \E i \in At("cb") :
          log[i].err = "null" /\ \E e \in fs : e.real = log[i].path
====
